---- MODULE Spec2Model ----
(***************************************************************************)
(* Model of trial_maker.py: trial_reader, the Trial class and              *)
(* make_trial_list.                                                        *)
(*                                                                         *)
(* Python objects live in heaps and are named by their addresses: the      *)
(* lists built at line 79 in `heap`, the row dictionaries in `dheap`, the  *)
(* Trial instances (their __dict__) in `objs`.  pandas is a library, not   *)
(* code of the repository: a file is modelled by the table pandas parses   *)
(* from it (unique header names, one row per parsed data row), and         *)
(* read_csv by its outcomes (an exception, or the column-oriented frame).  *)
(* Keyword arguments keep their call order (Python >= 3.6).                *)
(***************************************************************************)
EXTENDS Integers, Sequences, FiniteSets, TLC

\* ---------------------------------------------------------------- bounds
MaxCols == 2    \* columns of a stimulus file
MaxRows == 2    \* data rows of a stimulus file
MaxCalls == 2   \* calls of trial_reader / make_trial_list in one run
MaxArgs == 2    \* positional dictionaries of one direct Trial(...) call

\* ---------------------------------------------------------------- values
ColNames == {"target", "correct_response", "vars_list"}   \* header names
Names == {"target", "vars_list"}     \* keys of a direct Trial(...) call
Cells == {"M5K.png", "z"}            \* cell values
Path == "stimulus_list.csv"

Str(s) == [kind |-> "str", str |-> s, ref |-> 0]     \* an immutable value
Ref(a) == [kind |-> "list", str |-> "", ref |-> a]   \* a reference to heap[a]

SeqsUpTo(S, n) == UNION {[1..k -> S] : k \in 0..n}
IsInjective(s) == \A i, j \in DOMAIN s : s[i] = s[j] => i = j

\* A file: missing, zero bytes, or a header and data rows of equal width.
Missing == [kind |-> "missing", header |-> <<>>, rows |-> <<>>]
ZeroBytes == [kind |-> "empty", header |-> <<>>, rows |-> <<>>]
Headers == {h \in SeqsUpTo(ColNames, MaxCols) : Len(h) >= 1 /\ IsInjective(h)}
Tables ==
  UNION {{[kind |-> "table", header |-> h, rows |-> r] :
            r \in SeqsUpTo([1..Len(h) -> Cells], MaxRows)} : h \in Headers}
FileContents == {Missing, ZeroBytes} \cup Tables

\* An ordered dictionary: a sequence of <<key, value>> with unique keys.
DictKeys(d) == [i \in DOMAIN d |-> d[i][1]]
HasKey(d, k) == \E i \in DOMAIN d : d[i][1] = k
DictGet(d, k) == d[CHOOSE i \in DOMAIN d : d[i][1] = k][2]
AllDicts ==
  {d \in SeqsUpTo(Names \X {Str(c) : c \in Cells}, Cardinality(Names)) :
     IsInjective(DictKeys(d))}

VARIABLES
  fs,      \* the content of the file at Path
  heap,    \* the list objects: address -> sequence of names
  dheap,   \* the dictionary objects: address -> ordered dictionary
  objs,    \* the Trial instances: address -> __dict__ (name -> value)
  log,     \* log[t]: the arguments objs[t] was constructed with, and by whom
  calls,   \* the finished calls of trial_reader and make_trial_list
  args,    \* the arguments of a pending direct Trial(...) call
  last     \* the caller's last mutation of a Trial object

vars == <<fs, heap, dheap, objs, log, calls, args, last>>

Mem == [heap |-> heap, dheap |-> dheap, objs |-> objs, log |-> log]

\* ------------------------------------------------------- pandas (line 49-52)
\* pd.read_csv: raises on a missing or zero-byte file; otherwise the frame,
\* stored by column.  A header-only file gives a frame with no rows.
read_csv(content) ==
  IF content.kind = "missing"
    THEN [status |-> "raised", error |-> "FileNotFoundError",
          columns |-> <<>>, series |-> <<>>]
  ELSE IF content.kind = "empty"
    THEN [status |-> "raised", error |-> "EmptyDataError",
          columns |-> <<>>, series |-> <<>>]
  ELSE [status |-> "ok", error |-> "",
        columns |-> content.header,
        series |-> [j \in 1..Len(content.header) |->
                      [i \in 1..Len(content.rows) |-> Str(content.rows[i][j])]]]

\* list(df.itertuples(index=False)): header row taken as data (header=None)
itertuples_with_header(df) ==
  <<[j \in 1..Len(df.columns) |-> Str(df.columns[j])]>> \o
  [i \in 1..Len(df.series[1]) |->
     [j \in 1..Len(df.columns) |-> df.series[j][i]]]

\* list(df.itertuples(index=False)): one tuple per row, in row order
itertuples(df) ==
  [i \in 1..Len(df.series[1]) |->
     [j \in 1..Len(df.columns) |-> df.series[j][i]]]

\* zip pairing the headers from the right
zip_reversed(xs, ys) ==
  LET n == IF Len(xs) <= Len(ys) THEN Len(xs) ELSE Len(ys)
  IN [i \in 1..n |-> <<xs[n + 1 - i], ys[i]>>]

\* zip(headers, vals)
zip(xs, ys) ==
  LET n == IF Len(xs) <= Len(ys) THEN Len(xs) ELSE Len(ys)
  IN [i \in 1..n |-> <<xs[i], ys[i]>>]

\* d[k] = v on an ordered dictionary: a known key keeps its place
DictSet(d, k, v) ==
  IF HasKey(d, k)
    THEN [i \in DOMAIN d |-> IF d[i][1] = k THEN <<k, v>> ELSE d[i]]
    ELSE Append(d, <<k, v>>)

RECURSIVE DictFrom(_, _, _)
DictFrom(d, pairs, i) ==
  IF i > Len(pairs) THEN d
  ELSE DictFrom(DictSet(d, pairs[i][1], pairs[i][2]), pairs, i + 1)

\* OrderedDict(pairs)
OrderedDict(pairs) == DictFrom(<<>>, pairs, 1)

\* trial_reader (lines 49-53): the reader's error, or the row dictionaries
trial_reader(content) ==
  LET df == read_csv(content)
  IN IF df.status = "raised"
       THEN [status |-> "raised", error |-> df.error, value |-> <<>>]
       ELSE LET headers == df.columns
                rows == itertuples(df)
            IN [status |-> "ok", error |-> "",
                value |-> [i \in DOMAIN rows |->
                             OrderedDict(zip(headers, rows[i]))]]

\* ------------------------------------------------------- Trial (lines 78-87)
NoAttrs == [n \in {} |-> Str("")]

\* setattr that keeps an attribute already set
setattr_keep_first(o, k, v) ==
  [n \in DOMAIN o \cup {k} |-> IF n \in DOMAIN o THEN o[n] ELSE v]

\* setattr(self, k, v): sets or overwrites
setattr(o, k, v) ==
  [n \in DOMAIN o \cup {k} |-> IF n = k THEN v ELSE o[n]]

\* append that skips a name already listed
append_unique(l, x) ==
  IF \E i \in DOMAIN l : l[i] = x THEN l ELSE Append(l, x)

\* vars_list.append(key)
append(l, x) == Append(l, x)

\* one list shared by every construction (a mutable default or class field)
NewListShared(h) ==
  IF h = <<>> THEN [addr |-> 1, heap |-> <<<<>>>>] ELSE [addr |-> 1, heap |-> h]

\* vars_list = []   (line 79): a fresh list object
NewList(h) == [addr |-> Len(h) + 1, heap |-> Append(h, <<>>)]

\* lines 82-83 / 85-86: one assignment of the loops' bodies
Assign(s, a, k, v) ==
  [attrs |-> setattr(s.attrs, k, v),
   heap |-> [s.heap EXCEPT ![a] = append(@, k)]]

\* the items of one dictionary (or of kwargs), in their order
RECURSIVE InitItems(_, _, _, _)
InitItems(s, a, d, i) ==
  IF i > Len(d) THEN s
  ELSE InitItems(Assign(s, a, d[i][1], d[i][2]), a, d, i + 1)

\* for dictionary in trial_dicts (lines 80-83)
RECURSIVE InitDicts(_, _, _, _)
InitDicts(s, a, ds, j) ==
  IF j > Len(ds) THEN s
  ELSE InitDicts(InitItems(s, a, ds[j], 1), a, ds, j + 1)

\* __init__ with self.vars_list = vars_list moved before the loops
init_bookkeeping_first(h, ds, kw) ==
  LET nl == NewList(h)
      s0 == [attrs |-> setattr(NoAttrs, "vars_list", Ref(nl.addr)),
             heap |-> nl.heap]
      s1 == InitDicts(s0, nl.addr, ds, 1)
      s2 == InitItems(s1, nl.addr, kw, 1)
  IN [attrs |-> s2.attrs, heap |-> s2.heap]

\* __init__ that handles kwargs before the positional dictionaries
init_kwargs_first(h, ds, kw) ==
  LET nl == NewList(h)
      s0 == [attrs |-> NoAttrs, heap |-> nl.heap]
      s1 == InitItems(s0, nl.addr, kw, 1)
      s2 == InitDicts(s1, nl.addr, ds, 1)
  IN [attrs |-> setattr(s2.attrs, "vars_list", Ref(nl.addr)), heap |-> s2.heap]

\* Trial.__init__(self, *trial_dicts, **kwargs) on dictionaries ds
init(h, ds, kw) ==
  LET nl == NewList(h)
      s0 == [attrs |-> NoAttrs, heap |-> nl.heap]
      s1 == InitDicts(s0, nl.addr, ds, 1)
      s2 == InitItems(s1, nl.addr, kw, 1)
  IN [attrs |-> setattr(s2.attrs, "vars_list", Ref(nl.addr)), heap |-> s2.heap]

\* Trial(*das, **kw): das are the addresses of the dictionaries passed
Trial(m, das, kw, by) ==
  LET r == init(m.heap, [j \in DOMAIN das |-> m.dheap[das[j]]], kw)
  IN [heap |-> r.heap, dheap |-> m.dheap,
      objs |-> Append(m.objs, r.attrs),
      log |-> Append(m.log, [dicts |-> das, kwargs |-> kw, by |-> by])]

\* ----------------------------------------------- make_trial_list (97-101)
\* a stim_list that outlives the call (a module-level list never reset)
StimListGlobal ==
  IF \E c \in DOMAIN calls : calls[c].fn = "make_trial_list"
    THEN calls[CHOOSE c \in DOMAIN calls :
                 /\ calls[c].fn = "make_trial_list"
                 /\ \A c2 \in DOMAIN calls :
                      calls[c2].fn = "make_trial_list" => c2 <= c].value
    ELSE <<>>

\* stim_list = []   (line 98)
StimListInit == <<>>

\* for row in trial_dicts: stim_list.append(Trial(row))   (lines 99-100)
RECURSIVE Wrap(_, _, _, _, _)
Wrap(m, stim_list, das, i, by) ==
  IF i > Len(das) THEN [m |-> m, stim_list |-> stim_list]
  ELSE LET m2 == Trial(m, <<das[i]>>, <<>>, by)
       IN Wrap(m2, Append(stim_list, Len(m2.objs)), das, i + 1, by)

\* the loop wrapping all rows but the last
WrapSkipLast(m, stim_list, das, i, by) ==
  Wrap(m, stim_list, SubSeq(das, 1, Len(das) - 1), i, by)

\* the loop of lines 99-100 over the reader's dictionaries
WrapRows(m, stim_list, das, i, by) == Wrap(m, stim_list, das, i, by)

Outcome(m, status, error, value) ==
  [m |-> m, status |-> status, error |-> error, value |-> value]

\* a call of trial_reader: its dictionaries are new objects of dheap
read(m, content) ==
  LET r == trial_reader(content)
      das == [i \in DOMAIN r.value |-> Len(m.dheap) + i]
  IN Outcome([m EXCEPT !.dheap = m.dheap \o r.value], r.status, r.error, das)

\* make_trial_list with the reader's error caught and an empty list returned
make_trial_list_catching(m, content, by) ==
  LET r == read(m, content)
  IN IF r.status = "raised"
       THEN Outcome(m, "ok", "", <<>>)
       ELSE LET w == WrapRows(r.m, StimListInit, r.value, 1, by)
            IN Outcome(w.m, "ok", "", w.stim_list)

\* make_trial_list (lines 97-101): the reader's error passes through
make_trial_list(m, content, by) ==
  LET r == read(m, content)
  IN IF r.status = "raised"
       THEN Outcome(m, "raised", r.error, <<>>)
       ELSE LET w == WrapRows(r.m, StimListInit, r.value, 1, by)
            IN Outcome(w.m, "ok", "", w.stim_list)

\* ---------------------------------------------------------------- actions
NoArgs == [dicts |-> <<>>, kwargs |-> <<>>, pending |-> FALSE]
NoMutation == [op |-> "none", target |-> 0]

Finish(fn, r) ==
  /\ heap' = r.m.heap
  /\ dheap' = r.m.dheap
  /\ objs' = r.m.objs
  /\ log' = r.m.log
  /\ calls' = Append(calls, [fn |-> fn, path |-> Path, status |-> r.status,
                             error |-> r.error, value |-> r.value])
  /\ UNCHANGED <<fs, args, last>>

\* the caller runs trial_reader(Path)
CallTrialReader ==
  /\ Len(calls) < MaxCalls
  /\ Finish("trial_reader", read(Mem, fs))

\* the caller runs make_trial_list(Path)
CallMakeTrialList ==
  /\ Len(calls) < MaxCalls
  /\ Finish("make_trial_list", make_trial_list(Mem, fs, Len(calls) + 1))

\* the caller runs Trial(*dicts, **kwargs) on its own dictionaries
Construct ==
  /\ args.pending
  /\ LET m == Trial(Mem, args.dicts, args.kwargs, 0)
     IN /\ heap' = m.heap
        /\ dheap' = m.dheap
        /\ objs' = m.objs
        /\ log' = m.log
  /\ args' = [args EXCEPT !.pending = FALSE]
  /\ UNCHANGED <<fs, calls, last>>

\* the caller runs t.vars_list.append(n) on a Trial it holds
AppendVars(t, n) ==
  /\ last.op = "none"
  /\ objs[t]["vars_list"].kind = "list"
  /\ heap' = [heap EXCEPT ![objs[t]["vars_list"].ref] = Append(@, n)]
  /\ last' = [op |-> "append", target |-> t]
  /\ UNCHANGED <<fs, dheap, objs, log, calls, args>>

\* the caller runs t.n = v on a Trial it holds
SetAttr(t, n, v) ==
  /\ last.op = "none"
  /\ objs' = [objs EXCEPT ![t] = setattr(@, n, Str(v))]
  /\ last' = [op |-> "setattr", target |-> t]
  /\ UNCHANGED <<fs, heap, dheap, log, calls, args>>

\* one change by the caller per run (last.op = "none" guards both)
Mutate ==
  \E t \in DOMAIN objs :
    \/ \E n \in ColNames : AppendVars(t, n)
    \/ \E n \in ColNames, v \in Cells : SetAttr(t, n, v)

\* ---------------------------------------------------------- specifications
InitMem ==
  /\ heap = <<>>
  /\ objs = <<>>
  /\ log = <<>>
  /\ calls = <<>>
  /\ last = NoMutation

\* a stimulus file on disk, nothing called yet
Init ==
  /\ InitMem
  /\ fs \in FileContents
  /\ dheap = <<>>
  /\ args = NoArgs

Next == CallTrialReader \/ CallMakeTrialList

Spec == Init /\ [][Next]_vars

\* a direct call Trial(d1, ..., dn, **kwargs) about to run
InitTrial ==
  /\ InitMem
  /\ fs = Missing
  /\ dheap \in SeqsUpTo(AllDicts, MaxArgs)
  /\ \E kw \in AllDicts :
       args = [dicts |-> [j \in DOMAIN dheap |-> j], kwargs |-> kw,
               pending |-> TRUE]

NextTrial == Construct

SpecTrial == InitTrial /\ [][NextTrial]_vars

\* the caller builds trial lists and changes one Trial object it holds
NextMut == CallMakeTrialList \/ Mutate

SpecMut == Init /\ [][NextMut]_vars

\* ------------------------------------------------------------ observations
IsList(t) ==
  /\ "vars_list" \in DOMAIN objs[t]
  /\ objs[t]["vars_list"].kind = "list"
  /\ objs[t]["vars_list"].ref \in DOMAIN heap

VarsListOf(t) == heap[objs[t]["vars_list"].ref]

\* what a reader of the object sees: lists by their items, not their address
Seen(v) ==
  [kind |-> v.kind, str |-> v.str,
   items |-> IF v.kind = "list" /\ v.ref \in DOMAIN heap THEN heap[v.ref]
             ELSE <<>>]
View(t) == [n \in DOMAIN objs[t] |-> Seen(objs[t][n])]

RECURSIVE Concat(_)
Concat(ss) == IF ss = <<>> THEN <<>> ELSE Head(ss) \o Concat(Tail(ss))

RECURSIVE SumLen(_)
SumLen(ss) == IF ss = <<>> THEN 0 ELSE Len(Head(ss)) + SumLen(Tail(ss))

\* the dictionaries objs[t] was constructed from, and every item supplied
DictsOf(t) == [j \in DOMAIN log[t].dicts |-> dheap[log[t].dicts[j]]]
Supplied(t) == Concat(DictsOf(t)) \o log[t].kwargs
KeysSupplied(t) == {Supplied(t)[i][1] : i \in DOMAIN Supplied(t)}
LastValue(t, n) ==
  LET h == Supplied(t)
      i == CHOOSE i \in DOMAIN h :
             h[i][1] = n /\ \A j \in DOMAIN h : h[j][1] = n => j <= i
  IN h[i][2]

IsMTL(c) == calls[c].fn = "make_trial_list"
ObjsBy(c) == {t \in DOMAIN log : log[t].by = c}
RowRecord(i) ==
  [j \in 1..Len(fs.header) |-> <<fs.header[j], Str(fs.rows[i][j])>>]

\* ------------------------------------------------------------------ claims

\* C1 as stated: every name in t.vars_list is an attribute of t holding the
\* value of the last dictionary / keyword argument that contains the name.
C1_AsStated ==
  \A t \in DOMAIN objs :
    /\ IsList(t)
    /\ \A i \in DOMAIN VarsListOf(t) :
         LET n == VarsListOf(t)[i]
         IN n \in DOMAIN objs[t] /\ objs[t][n] = LastValue(t, n)

\* C1 amended: every name in t.vars_list other than "vars_list" is an
\* attribute of t holding the last value supplied for it; the attribute
\* vars_list exists too, and holds the list of names, not a supplied value.
C1_LastAssigned ==
  \A t \in DOMAIN objs :
    /\ IsList(t)
    /\ \A i \in DOMAIN VarsListOf(t) :
         LET n == VarsListOf(t)[i]
         IN /\ n \in DOMAIN objs[t]
            /\ n # "vars_list" => objs[t][n] = LastValue(t, n)

C1_Witness ==
  \E t \in DOMAIN objs :
    \E i, j \in DOMAIN Supplied(t) :
      /\ i < j
      /\ Supplied(t)[i][1] = "target" /\ Supplied(t)[j][1] = "target"
      /\ Supplied(t)[i][2] # Supplied(t)[j][2]
      /\ objs[t]["target"] = Supplied(t)[j][2]

\* C4: vars_list is the assignment history: the keys of the positional
\* dictionaries in argument order, then the keyword names, repeats kept;
\* its length is the sum of the dictionaries' sizes plus the keyword count.
C4_History ==
  \A t \in DOMAIN objs :
    /\ IsList(t)
    /\ VarsListOf(t) = [i \in DOMAIN Supplied(t) |-> Supplied(t)[i][1]]
    /\ Len(VarsListOf(t)) = SumLen(DictsOf(t)) + Len(log[t].kwargs)

C4_Witness ==
  \E t \in DOMAIN objs :
    /\ IsList(t)
    /\ Len(log[t].dicts) = 2 /\ Len(log[t].kwargs) >= 1
    /\ \E i, j \in DOMAIN VarsListOf(t) :
         i < j /\ VarsListOf(t)[i] = VarsListOf(t)[j]

LastDictWith(t, n) ==
  CHOOSE j \in DOMAIN DictsOf(t) :
    /\ HasKey(DictsOf(t)[j], n)
    /\ \A j2 \in DOMAIN DictsOf(t) : HasKey(DictsOf(t)[j2], n) => j2 <= j

Overwrites(t, n) ==
  /\ n \in DOMAIN objs[t]
  /\ objs[t][n] = IF HasKey(log[t].kwargs, n)
                    THEN DictGet(log[t].kwargs, n)
                    ELSE DictGet(DictsOf(t)[LastDictWith(t, n)], n)

DataAttrsAreKeys(t) ==
  DOMAIN objs[t] \ {"vars_list"} = KeysSupplied(t) \ {"vars_list"}

\* C5 as stated: every key supplied takes the value of the last positional
\* dictionary holding it, unless a keyword argument names it, which wins;
\* the data attributes are the union of the keys supplied.
C5_AsStated ==
  \A t \in DOMAIN objs :
    /\ DataAttrsAreKeys(t)
    /\ \A n \in KeysSupplied(t) : Overwrites(t, n)

\* C5 amended: the same for every key other than "vars_list"; a supplied
\* vars_list value is itself overwritten by the list of names.
C5_LaterWins ==
  \A t \in DOMAIN objs :
    /\ DataAttrsAreKeys(t)
    /\ \A n \in KeysSupplied(t) \ {"vars_list"} : Overwrites(t, n)
    /\ "vars_list" \in KeysSupplied(t) => IsList(t)

C5_Witness ==
  \E t \in DOMAIN objs :
    /\ HasKey(log[t].kwargs, "target")
    /\ \E j \in DOMAIN DictsOf(t) :
         /\ HasKey(DictsOf(t)[j], "target")
         /\ DictGet(DictsOf(t)[j], "target") # DictGet(log[t].kwargs, "target")
    /\ objs[t]["target"] = DictGet(log[t].kwargs, "target")

\* C9: after construction the attribute vars_list is the list of assigned
\* names even when a dictionary or keyword argument supplies a key named
\* vars_list: that value is discarded, and the name is in the list.
C9_Bookkeeping ==
  \A t \in DOMAIN objs :
    /\ IsList(t)
    /\ {VarsListOf(t)[i] : i \in DOMAIN VarsListOf(t)} = KeysSupplied(t)
    /\ "vars_list" \in KeysSupplied(t) =>
         /\ \E i \in DOMAIN VarsListOf(t) : VarsListOf(t)[i] = "vars_list"
         /\ objs[t]["vars_list"] # LastValue(t, "vars_list")

C9_Witness ==
  \E t \in DOMAIN objs :
    /\ IsList(t)
    /\ HasKey(log[t].kwargs, "vars_list")
    /\ \E j \in DOMAIN DictsOf(t) : HasKey(DictsOf(t)[j], "vars_list")

\* C2: on a readable file with R data rows make_trial_list returns R Trial
\* objects, each constructed once from that row's record alone, no kwargs.
C2_OnePerRow ==
  \A c \in DOMAIN calls :
    IsMTL(c) /\ fs.kind = "table" =>
      /\ calls[c].status = "ok"
      /\ Len(calls[c].value) = Len(fs.rows)
      /\ Cardinality(ObjsBy(c)) = Len(fs.rows)
      /\ \A i \in DOMAIN calls[c].value :
           LET t == calls[c].value[i]
           IN /\ t \in ObjsBy(c)
              /\ \A i2 \in DOMAIN calls[c].value :
                   calls[c].value[i2] = t => i2 = i
              /\ log[t].kwargs = <<>>
              /\ Len(log[t].dicts) = 1
              /\ dheap[log[t].dicts[1]] = RowRecord(i)

C2_Witness ==
  \E c \in DOMAIN calls :
    /\ IsMTL(c) /\ fs.kind = "table" /\ Len(fs.rows) = 2
    /\ Len(calls[c].value) = 2

RowsKept(c) ==
  /\ calls[c].status = "ok"
  /\ Len(calls[c].value) = Len(fs.rows)
  /\ \A i \in DOMAIN calls[c].value :
       IsList(calls[c].value[i]) /\ VarsListOf(calls[c].value[i]) = fs.header

\* C3 as stated: element i comes from data row i, its attribute for every
\* header name equals the row's cell in that column, and its vars_list is
\* the header in column order.
C3_AsStated ==
  \A c \in DOMAIN calls :
    IsMTL(c) /\ fs.kind = "table" =>
      /\ RowsKept(c)
      /\ \A i \in DOMAIN calls[c].value : \A j \in DOMAIN fs.header :
           /\ fs.header[j] \in DOMAIN objs[calls[c].value[i]]
           /\ objs[calls[c].value[i]][fs.header[j]] = Str(fs.rows[i][j])

\* C3 amended: the same for every header name other than "vars_list"; the
\* attribute vars_list is the header list even when a column has that name.
C3_Order ==
  \A c \in DOMAIN calls :
    IsMTL(c) /\ fs.kind = "table" =>
      /\ RowsKept(c)
      /\ \A i \in DOMAIN calls[c].value : \A j \in DOMAIN fs.header :
           /\ fs.header[j] \in DOMAIN objs[calls[c].value[i]]
           /\ fs.header[j] # "vars_list" =>
                objs[calls[c].value[i]][fs.header[j]] = Str(fs.rows[i][j])

C3_Witness ==
  \E c \in DOMAIN calls :
    /\ IsMTL(c) /\ calls[c].status = "ok"
    /\ fs.header = <<"target", "correct_response">>
    /\ fs.rows = << <<"M5K.png", "z">>, <<"z", "M5K.png">> >>
    /\ Len(calls[c].value) = 2
    /\ objs[calls[c].value[1]]["correct_response"] = Str("z")
    /\ objs[calls[c].value[2]]["correct_response"] = Str("M5K.png")

\* C6: when the reader raises, make_trial_list fails with that same error,
\* constructs no Trial and returns nothing.
C6_AllOrNothing ==
  \A c \in DOMAIN calls :
    IsMTL(c) /\ fs.kind # "table" =>
      /\ calls[c].status = "raised"
      /\ calls[c].error = read_csv(fs).error
      /\ calls[c].value = <<>>
      /\ ObjsBy(c) = {}

C6_Witness ==
  \E c \in DOMAIN calls :
    IsMTL(c) /\ fs.kind = "missing" /\ calls[c].error = "FileNotFoundError"

\* C7: a header-only file makes trial_reader and make_trial_list return an
\* empty sequence, not raise.
C7_HeaderOnly ==
  \A c \in DOMAIN calls :
    fs.kind = "table" /\ fs.rows = <<>> =>
      calls[c].status = "ok" /\ calls[c].value = <<>>

C7_Witness ==
  /\ fs.kind = "table" /\ fs.rows = <<>>
  /\ \E c \in DOMAIN calls : IsMTL(c) /\ calls[c].status = "ok"
  /\ \E c \in DOMAIN calls : ~IsMTL(c) /\ calls[c].status = "ok"

OwnLists ==
  \A t, u \in DOMAIN objs :
    t # u /\ objs[t]["vars_list"].kind = "list"
          /\ objs[u]["vars_list"].kind = "list" =>
      objs[t]["vars_list"].ref # objs[u]["vars_list"].ref

====
